---- MODULE Spec2Model ----
(***************************************************************************)
(* Model of warmup/sockets/echo_client.py: a blocking TCP echo client that *)
(* connects, reads one line, sends it with sendall, does one recv sized by *)
(* the line's character count, decodes the reply and prints it.            *)
(*                                                                         *)
(* Text is a sequence of Unicode code points, the wire carries sequences   *)
(* of bytes (0..255).  The peer is an echo server: what reaches the        *)
(* client's receive buffer is, at any time, a prefix of what the client    *)
(* has handed to the transport.  The transport decides how many bytes each *)
(* underlying write accepts and how many echoed bytes have arrived when    *)
(* recv runs; the peer may close or reset the connection at any time.      *)
(***************************************************************************)
EXTENDS Integers, Sequences, FiniteSets

\* Longest input line explored.
MaxLen == 2

\* Code points the user may type: 'a', 'b' (1 byte each in UTF-8), U+00E9
\* (2 bytes), U+20AC (3 bytes), U+1F600 (4 bytes) and the lone surrogate
\* U+D800, which str.encode('utf-8') rejects.
Chars == {97, 98, 233, 8364, 128512, 55296}

Lines == UNION {[1..n -> Chars] : n \in 0..MaxLen}

VARIABLES
    pc,        \* statement main is at, or "done" / "error"
    conn,      \* "none", "open", "closed" (peer sent FIN), "reset"
    prompted,  \* "Say >" has been written
    msg,       \* the line returned by input()
    sent,      \* bytes sendall has handed to the transport so far
    partial,   \* some underlying write accepted less than it was offered
    arrived,   \* number of echoed bytes in the client's receive buffer
    response,  \* the buffer returned by recv
    stdout,    \* the "Received >" lines printed (each the decoded text)
    err,       \* which call raised: "none" or the name of the step
    trace      \* the calls main has made, in order

vars == <<pc, conn, prompted, msg, sent, partial, arrived, response, stdout, err, trace>>

prog == <<pc, prompted, msg, sent, partial, response, stdout, err, trace>>

----------------------------------------------------------------------------
\* Sequence helpers.

Take(s, n) == SubSeq(s, 1, n)

Min(a, b) == IF a < b THEN a ELSE b

IsPrefix(p, s) == Len(p) <= Len(s) /\ Take(s, Len(p)) = p

----------------------------------------------------------------------------
\* str.encode('utf-8') and bytes.decode('utf-8') (strict error handler).

IsSurrogate(cp) == cp >= 55296 /\ cp <= 57343

Encodable(m) == \A i \in 1..Len(m) : ~IsSurrogate(m[i])

UTF8EncodeChar(cp) ==
    IF cp < 128 THEN <<cp>>
    ELSE IF cp < 2048 THEN <<192 + (cp \div 64), 128 + (cp % 64)>>
    ELSE IF cp < 65536
         THEN <<224 + (cp \div 4096), 128 + ((cp \div 64) % 64), 128 + (cp % 64)>>
    ELSE <<240 + (cp \div 262144), 128 + ((cp \div 4096) % 64),
           128 + ((cp \div 64) % 64), 128 + (cp % 64)>>

RECURSIVE UTF8Encode(_)
UTF8Encode(m) ==
    IF m = <<>> THEN <<>>
    ELSE UTF8EncodeChar(Head(m)) \o UTF8Encode(Tail(m))

IsCont(b) == b >= 128 /\ b < 192

\* Number of bytes the lead byte announces, 0 for an invalid lead byte.
SeqLen(b0) ==
    IF b0 < 128 THEN 1
    ELSE IF b0 >= 194 /\ b0 < 224 THEN 2
    ELSE IF b0 >= 224 /\ b0 < 240 THEN 3
    ELSE IF b0 >= 240 /\ b0 < 245 THEN 4
    ELSE 0

CodePoint(b, i, n) ==
    IF n = 1 THEN b[i]
    ELSE IF n = 2 THEN (b[i] - 192) * 64 + (b[i+1] - 128)
    ELSE IF n = 3 THEN (b[i] - 224) * 4096 + (b[i+1] - 128) * 64 + (b[i+2] - 128)
    ELSE (b[i] - 240) * 262144 + (b[i+1] - 128) * 4096
         + (b[i+2] - 128) * 64 + (b[i+3] - 128)

MinCodePoint(n) == IF n = 1 THEN 0 ELSE IF n = 2 THEN 128 ELSE IF n = 3 THEN 2048 ELSE 65536

DecodeError == [ok |-> FALSE, chars |-> <<>>]

RECURSIVE DecodeFrom(_, _)
DecodeFrom(b, i) ==
    IF i > Len(b) THEN [ok |-> TRUE, chars |-> <<>>]
    ELSE LET n == SeqLen(b[i]) IN
         IF n = 0 \/ i + n - 1 > Len(b) THEN DecodeError
         ELSE IF \E k \in 1..(n-1) : ~IsCont(b[i+k]) THEN DecodeError
         ELSE LET cp == CodePoint(b, i, n) IN
              IF cp < MinCodePoint(n) \/ IsSurrogate(cp) \/ cp > 1114111
              THEN DecodeError
              ELSE LET rest == DecodeFrom(b, i + n) IN
                   IF rest.ok THEN [ok |-> TRUE, chars |-> <<cp>> \o rest.chars]
                   ELSE DecodeError

\* Variant: the reply decoded with the 'ascii' codec.
AsciiDecode(b) ==
    IF \A i \in 1..Len(b) : b[i] < 128 THEN [ok |-> TRUE, chars |-> b]
    ELSE DecodeError

UTF8Decode(b) == DecodeFrom(b, 1)

\* Variant: recv sized by the encoded length, len(msg.encode('utf-8')).
RecvLimitBytes(m) == Len(UTF8Encode(m))

\* The size main passes to recv: len(msg), the number of characters.
RecvLimit(m) == Len(m)

----------------------------------------------------------------------------
Init ==
    /\ pc = "connect"
    /\ conn = "none"
    /\ prompted = FALSE
    /\ msg = <<>>
    /\ sent = <<>>
    /\ partial = FALSE
    /\ arrived = 0
    /\ response = <<>>
    /\ stdout = <<>>
    /\ err = "none"
    /\ trace = <<>>

Raise(step) ==
    /\ pc' = "error"
    /\ err' = step

\* sock.connect(addr) succeeds.
Connect ==
    /\ pc = "connect"
    /\ pc' = "prompt"
    /\ conn' = "open"
    /\ trace' = Append(trace, "connect")
    /\ UNCHANGED <<prompted, msg, sent, partial, arrived, response, stdout, err>>

\* Variant: the connect error is caught and main carries on.
ConnectFailContinues ==
    /\ pc = "connect"
    /\ pc' = "prompt"
    /\ err' = "connect"
    /\ trace' = Append(trace, "connect")
    /\ UNCHANGED <<conn, prompted, msg, sent, partial, arrived, response, stdout>>

\* sock.connect(addr) raises (refused, unreachable, bad address).
ConnectFail ==
    /\ pc = "connect"
    /\ Raise("connect")
    /\ trace' = Append(trace, "connect")
    /\ UNCHANGED <<conn, prompted, msg, sent, partial, arrived, response, stdout>>

\* input("Say >") writes the prompt, then blocks reading a line.
Prompt ==
    /\ pc = "prompt"
    /\ pc' = "readline"
    /\ prompted' = TRUE
    /\ trace' = Append(trace, "input")
    /\ UNCHANGED <<conn, msg, sent, partial, arrived, response, stdout, err>>

\* The user supplies a line; input() returns it without the newline.
ReadLine ==
    /\ pc = "readline"
    /\ \E line \in Lines : msg' = line
    /\ pc' = "encode"
    /\ UNCHANGED <<conn, prompted, sent, partial, arrived, response, stdout, err, trace>>

\* Standard input is at end of file: input() raises EOFError.
ReadLineFail ==
    /\ pc = "readline"
    /\ Raise("input")
    /\ UNCHANGED <<conn, prompted, msg, sent, partial, arrived, response, stdout, trace>>

\* msg.encode('utf-8') succeeds; sendall is entered with the encoded bytes.
Encode ==
    /\ pc = "encode"
    /\ Encodable(msg)
    /\ pc' = "sendall"
    /\ trace' = Append(trace, "send")
    /\ UNCHANGED <<conn, prompted, msg, sent, partial, arrived, response, stdout, err>>

\* msg.encode('utf-8') raises UnicodeEncodeError; sendall is never called.
EncodeFail ==
    /\ pc = "encode"
    /\ ~Encodable(msg)
    /\ Raise("encode")
    /\ UNCHANGED <<conn, prompted, msg, sent, partial, arrived, response, stdout, trace>>

\* Variant: sock.send in place of sock.sendall, one write and no loop.
SendOnce ==
    /\ pc = "sendall"
    /\ conn # "reset"
    /\ LET data == UTF8Encode(msg)
           rest == Len(data) - Len(sent)
       IN \E n \in (IF rest = 0 THEN {0} ELSE 1..rest) :
            /\ sent' = Take(data, Len(sent) + n)
            /\ partial' = (partial \/ n < rest)
            /\ pc' = "recv"
    /\ UNCHANGED <<conn, prompted, msg, arrived, response, stdout, err, trace>>

\* One underlying write of sendall's loop: the transport accepts n of the
\* bytes still to go (all of them or fewer); sendall returns only when
\* nothing is left.  For empty data the loop body runs once with n = 0.
SendWrite ==
    /\ pc = "sendall"
    /\ conn # "reset"
    /\ LET data == UTF8Encode(msg)
           rest == Len(data) - Len(sent)
       IN \E n \in (IF rest = 0 THEN {0} ELSE 1..rest) :
            /\ sent' = Take(data, Len(sent) + n)
            /\ partial' = (partial \/ n < rest)
            /\ pc' = IF n = rest THEN "recv" ELSE "sendall"
    /\ UNCHANGED <<conn, prompted, msg, arrived, response, stdout, err, trace>>

\* Variant: a failed write is recorded and the write is tried again.
SendFailRetry ==
    /\ pc = "sendall"
    /\ conn = "reset"
    /\ err' = "send"
    /\ UNCHANGED <<pc, conn, prompted, msg, sent, partial, arrived, response, stdout, trace>>

\* An underlying write fails on a reset connection: sendall raises.
SendFail ==
    /\ pc = "sendall"
    /\ conn = "reset"
    /\ Raise("send")
    /\ UNCHANGED <<conn, prompted, msg, sent, partial, arrived, response, stdout, trace>>

\* Variant: a non-blocking socket, recv returns whatever is there.
RecvReadyNonBlocking(limit) == TRUE

\* Variant: the zero-size recv waits for the peer like any other.
RecvReadyNeedsData(limit) == arrived > 0 \/ conn = "closed"

\* Variant: recv hands over everything buffered, whatever the limit.
RecvResultUnbounded(limit) == Take(sent, arrived)

\* What sock.recv(limit) returns, if it can return now.  A zero limit
\* returns the empty buffer without touching the socket; otherwise recv
\* returns the buffered bytes, at most limit of them, or the empty buffer
\* once the peer has closed; with nothing buffered and the connection open
\* it blocks.
RecvReady(limit) == limit = 0 \/ arrived > 0 \/ conn = "closed"

RecvResult(limit) == Take(sent, Min(limit, arrived))

\* Variant: recv called again until the limit is filled or the peer closes.
RecvUntilFull ==
    /\ pc = "recv"
    /\ RecvLimit(msg) = 0 \/ arrived > Len(response) \/ conn = "closed"
    /\ response' = Take(sent, Min(RecvLimit(msg), arrived))
    /\ pc' = IF Len(response') < RecvLimit(msg) /\ conn # "closed"
             THEN "recv" ELSE "print"
    /\ trace' = Append(trace, "recv")
    /\ UNCHANGED <<conn, prompted, msg, sent, partial, arrived, stdout, err>>

\* response = sock.recv(len(msg)): the one and only receive.
Recv ==
    /\ pc = "recv"
    /\ RecvReady(RecvLimit(msg))
    /\ response' = RecvResult(RecvLimit(msg))
    /\ pc' = "print"
    /\ trace' = Append(trace, "recv")
    /\ UNCHANGED <<conn, prompted, msg, sent, partial, arrived, stdout, err>>

\* recv raises on a reset connection (never for a zero limit).
RecvFail ==
    /\ pc = "recv"
    /\ RecvLimit(msg) > 0
    /\ conn = "reset"
    /\ Raise("recv")
    /\ trace' = Append(trace, "recv")
    /\ UNCHANGED <<conn, prompted, msg, sent, partial, arrived, response, stdout>>

\* print("Received >", response.decode('utf-8')), decoding succeeds.
PrintReceived ==
    /\ pc = "print"
    /\ UTF8Decode(response).ok
    /\ stdout' = Append(stdout, UTF8Decode(response).chars)
    /\ pc' = "done"
    /\ trace' = Append(trace, "print")
    /\ UNCHANGED <<conn, prompted, msg, sent, partial, arrived, response, err>>

\* response.decode('utf-8') raises UnicodeDecodeError; print is never called.
DecodeFail ==
    /\ pc = "print"
    /\ ~UTF8Decode(response).ok
    /\ Raise("decode")
    /\ UNCHANGED <<conn, prompted, msg, sent, partial, arrived, response, stdout, trace>>

----------------------------------------------------------------------------
\* The peer and the transport, while the client process is alive.

Running == pc \notin {"done", "error"}

\* More of the echo reaches the client's receive buffer.
Deliver ==
    /\ Running
    /\ conn = "open"
    /\ arrived < Len(sent)
    /\ \E k \in 1..(Len(sent) - arrived) : arrived' = arrived + k
    /\ UNCHANGED <<conn, prog>>

\* The peer closes its end (the client sees end of stream).
PeerClose ==
    /\ Running
    /\ conn = "open"
    /\ conn' = "closed"
    /\ UNCHANGED <<arrived, prog>>

\* The connection is reset.
PeerReset ==
    /\ Running
    /\ conn \in {"open", "closed"}
    /\ conn' = "reset"
    /\ UNCHANGED <<arrived, prog>>

----------------------------------------------------------------------------
Step ==
    \/ Connect \/ ConnectFail
    \/ Prompt
    \/ ReadLine \/ ReadLineFail
    \/ Encode \/ EncodeFail
    \/ SendWrite \/ SendFail
    \/ Recv \/ RecvFail
    \/ PrintReceived \/ DecodeFail

Peer == Deliver \/ PeerClose \/ PeerReset

Next ==
    \/ Connect
    \/ ConnectFail
    \/ Prompt
    \/ ReadLine
    \/ ReadLineFail
    \/ Encode
    \/ EncodeFail
    \/ SendWrite
    \/ SendFail
    \/ Recv
    \/ RecvFail
    \/ PrintReceived
    \/ DecodeFail
    \/ Deliver
    \/ PeerClose
    \/ PeerReset

Spec == Init /\ [][Next]_vars

\* Every call of main returns or raises once it can, and the peer does not
\* stall for ever while it has something to deliver or can close.
FairSpec == Spec /\ WF_vars(Step) /\ WF_vars(Peer)

----------------------------------------------------------------------------
\* Vocabulary of the properties.

IsAscii(m) == \A i \in 1..Len(m) : m[i] < 128

HasNonAscii(m) == \E i \in 1..Len(m) : m[i] >= 128

\* sendall has returned normally (main got past line 7).
SendReturned == pc \in {"recv", "print", "done"} \/ err \in {"recv", "decode"}

\* recv has returned a buffer (main got past line 8).
RecvReturned == pc \in {"print", "done"} \/ err = "decode"

\* The bytes b are the encoding of the first k characters of m, for some k.
OnCharBoundary(b, m) == \E k \in 0..Len(m) : b = UTF8Encode(Take(m, k))

\* The one printed line is a strict prefix of the text m.
PrintedStrictPrefixOf(m) ==
    /\ Len(stdout) = 1
    /\ IsPrefix(stdout[1], m)
    /\ stdout[1] # m

\* The calls of one run, in program order.
Order == <<"connect", "input", "send", "recv", "print">>

\* recv is waiting: it wants bytes, none has arrived, the peer has not closed.
Blocked == pc = "recv" /\ RecvLimit(msg) > 0 /\ arrived = 0 /\ conn = "open"

----------------------------------------------------------------------------
\* C1: for an ASCII input, against a server that echoes every byte it
\* receives and neither closes nor resets, a finished run has printed the
\* input unchanged, however the echoed bytes were split into deliveries.
C1_AsciiEchoedUnchanged ==
    (pc = "done" /\ IsAscii(msg) /\ conn = "open" /\ arrived = Len(sent))
        => stdout = <<msg>>

\* C2: when connect fails the run is in the error state, has printed no
\* "Received >" line, has not prompted, has sent nothing and has received
\* nothing; connect is the only call it made.
C2_ConnectFailure ==
    err = "connect" =>
        /\ pc = "error"
        /\ stdout = <<>>
        /\ ~prompted
        /\ sent = <<>>
        /\ arrived = 0
        /\ response = <<>>
        /\ trace = <<"connect">>

C2_Witness == err = "connect" /\ pc = "error"

\* C3 as stated: whenever recv has returned a proper prefix of the encoded
\* input, no error is raised and a finished run has printed a strict prefix
\* of the input.
C3_TruncatedEchoNoError ==
    (RecvReturned /\ Len(response) < Len(UTF8Encode(msg))) =>
        /\ err = "none"
        /\ (pc = "done" => PrintedStrictPrefixOf(msg))

\* C3 amended: whenever recv has returned a proper prefix of the encoded
\* input that ends on a character boundary, no error is raised and a finished
\* run has printed exactly the characters that prefix encodes, a strict
\* prefix of the input.
C3_TruncatedOnBoundaryNoError ==
    (RecvReturned /\ Len(response) < Len(UTF8Encode(msg))
                  /\ OnCharBoundary(response, msg)) =>
        /\ err = "none"
        /\ (pc = "done" => /\ PrintedStrictPrefixOf(msg)
                           /\ UTF8Encode(stdout[1]) = response)

C3_Witness ==
    /\ pc = "done"
    /\ HasNonAscii(msg)
    /\ Len(response) > 0
    /\ Len(response) < Len(UTF8Encode(msg))
    /\ OnCharBoundary(response, msg)

\* C4: for an input with a non-ASCII character, once sendall has returned
\* the recv limit (the character count) is strictly smaller than the number
\* of bytes sent, the buffer recv returns is shorter than what was sent, the
\* full input is never printed, and a finished run has printed a strict
\* prefix of the input (the other way a run that got its reply ends is the
\* decode error).
C4_CharCountUnderReads ==
    (SendReturned /\ HasNonAscii(msg)) =>
        /\ RecvLimit(msg) < Len(sent)
        /\ Len(response) < Len(sent)
        /\ stdout # <<msg>>
        /\ (pc = "done" => PrintedStrictPrefixOf(msg))

C4_Witness ==
    /\ pc = "done"
    /\ HasNonAscii(msg)
    /\ conn = "open"
    /\ arrived = Len(sent)
    /\ Len(response) = RecvLimit(msg)

\* C5: the response buffer is always a prefix of the bytes sent, and never
\* longer than the character count of the input.
C5_ResponsePrefixWithinLimit ==
    /\ IsPrefix(response, sent)
    /\ Len(response) <= Len(msg)

C5_Witness ==
    /\ RecvReturned
    /\ Len(msg) > 0
    /\ Len(response) = Len(msg)
    /\ arrived > Len(response)

\* C6: the calls a run has made are always an initial part of connect,
\* input, send, recv, print (so each is made at most once, in that order, and
\* nothing else, such as a close or a second recv, is ever called); at most
\* one line is ever printed, and a finished run made all five calls and
\* printed exactly one line.
C6_SingleRoundTrip ==
    /\ IsPrefix(trace, Order)
    /\ Len(stdout) <= 1
    /\ (pc = "done" => trace = Order /\ Len(stdout) = 1)
    /\ (pc \in {"sendall", "recv"} => trace = Take(Order, 3))
    /\ (pc = "print" => trace = Take(Order, 4))

C6_Witness == pc = "done" /\ partial /\ Len(response) > 0

\* C7: an error is recorded exactly when the run is in the error state, a
\* run in the error state has printed nothing, and no step at all is taken
\* from the error state.
C7_ErrorsAreFatal ==
    /\ []((err # "none") <=> (pc = "error"))
    /\ [](pc = "error" => stdout = <<>>)
    /\ [][pc # "error"]_vars

C7_Witness == pc = "error" /\ err = "decode" /\ Len(response) > 0

\* C8: once sendall has returned, every byte of the encoded input has been
\* handed to the transport.
C8_SendAllSendsEverything ==
    SendReturned => sent = UTF8Encode(msg)

C8_Witness == pc = "recv" /\ partial /\ sent = UTF8Encode(msg)

\* C9: every run eventually finishes or fails, and while recv wants bytes,
\* none has arrived and the peer has not closed, main does not move: it
\* stays in recv and prints nothing.
C9_BlocksUntilCompletion ==
    /\ <>(pc \in {"done", "error"})
    /\ [][Blocked => UNCHANGED prog]_vars

C9_Witness == Blocked /\ Len(sent) > 0

\* C10: for the empty line, once sendall has returned nothing was sent, the
\* recv limit is 0, recv can return at once whatever the peer did, it
\* returns the empty buffer, no error follows, and the run goes on to done
\* having printed one empty line.
C10_EmptyLine ==
    /\ []((SendReturned /\ msg = <<>>) =>
            /\ sent = <<>>
            /\ RecvLimit(msg) = 0
            /\ response = <<>>
            /\ err = "none"
            /\ (pc = "recv" => ENABLED Recv)
            /\ (pc = "done" => stdout = << <<>> >>))
    /\ ((pc = "recv" /\ msg = <<>>) ~> (pc = "done" /\ stdout = << <<>> >>))

C10_Witness ==
    /\ pc = "done"
    /\ msg = <<>>
    /\ conn = "reset"
    /\ stdout = << <<>> >>
====
